---- MODULE Spec2Model ----
(***************************************************************************)
(* The simulate-impact request handler of controllers/asteroid_controller  *)
(* (simulate_impact), as a state machine of one request.  A step is the    *)
(* code between two outbound calls, or one stage of the pipeline:          *)
(*   Receive (payload, aphelion, validation, polygon), CallStats, Poll,    *)
(*   PlaceLookup, Lethality, Physics, Assemble.                            *)
(* JSON values are records [k, v]: k = "absent" (key missing), "null",     *)
(* "bad" (a value float() raises on), "num" (the number v, v/d or v*10^e). *)
(* Spec follows a request from its arrival; SpecStages follows the         *)
(* lethality, physics and response stages over a wider set of descriptors. *)
(* An unhandled exception ends the request with the framework's HTTP 500   *)
(* page (factory.py registers no error handler), kind "crash".             *)
(***************************************************************************)
EXTENDS Integers, FiniteSets, Sequences, TLC

\* one simulate-impact request
VARIABLES req, pc, coords, geojson, wp_json, statsCalls, tj, polls,
          pollFinished, population, r, geoCalls, place, lethality,
          estimated_kills, physics, resp
\* the user table and the last answer of an auth endpoint
VARIABLES users, lastSet, authResp
\* one feed request
VARIABLES feedReq, feedPc, nasaCalls, nasaParams, nasaResp, feedResp
\* one call of User.send_confirmation_code
VARIABLES mailEnv, mailPc, mailSent, mailResult

simVars == <<req, pc, coords, geojson, wp_json, statsCalls, tj, polls,
             pollFinished, population, r, geoCalls, place, lethality,
             estimated_kills, physics, resp>>
authVars == <<users, lastSet, authResp>>
feedVars == <<feedReq, feedPc, nasaCalls, nasaParams, nasaResp, feedResp>>
mailVars == <<mailEnv, mailPc, mailSent, mailResult>>
vars == <<simVars, authVars, feedVars, mailVars>>

(* ---------------- bounds of the inputs ---------------- *)
MaxPopulation == 1
RadiusSpread == 0

(* ---------------- program constants ---------------- *)
MaxPolls == 30
DefaultRadius == 5
RadiusThreshold == 5

(* ---------------- JSON values ---------------- *)
Absent == [k |-> "absent", v |-> 0]
Null == [k |-> "null", v |-> 0]
Bad == [k |-> "bad", v |-> 0]
Num(n) == [k |-> "num", v |-> n]
\* the number n/d, and the number n * 10^e
Frac(n, d) == [k |-> "num", v |-> n, d |-> d]
Big(n, e) == [k |-> "num", v |-> n, e |-> e]
Den(x) == IF "d" \in DOMAIN x THEN x.d ELSE 1
Exp(x) == IF "e" \in DOMAIN x THEN x.e ELSE 0

\* x is None in Python: dict.get of a missing key, or a JSON null
IsNone(x) == x.k \in {"absent", "null"}
\* Python truth value of a JSON value ("bad" stands for a non-empty string)
Truthy(x) == x.k = "bad" \/ (x.k = "num" /\ x.v # 0)
\* a or b
PyOr(a, b) == IF Truthy(a) THEN a ELSE b
\* float(x) raises TypeError / ValueError
FloatRaises(x) == x.k # "num"

(* ---------------- the request ---------------- *)
NoLocation ==
  [present |-> FALSE, lat |-> Absent, lon |-> Absent, radius_km |-> Absent]
NoAsteroid ==
  [present |-> FALSE, aphelion_distance |-> Absent,
   impact_energy_tnt |-> Absent, mass_kg |-> Absent,
   entry_speed_km_s |-> Absent, relative_velocity_km_s |-> Absent,
   relative_velocity |-> Absent, relativeVelocity |-> Absent,
   cad_kps |-> Absent,
   diameter |-> Absent, diameterMeters |-> Absent, diameter_m |-> Absent,
   diameter_meters |-> Absent, est_min |-> Absent, est_max |-> Absent]

Radii == (RadiusThreshold - 1) .. (RadiusThreshold + RadiusSpread)
Locations ==
  {NoLocation}
  \cup {[present |-> TRUE, lat |-> Num(0), lon |-> Num(0), radius_km |-> x] :
          x \in {Absent, Bad} \cup {Num(n) : n \in Radii}}
  \cup {[present |-> TRUE, lat |-> Bad, lon |-> Num(0), radius_km |-> Absent],
        [present |-> TRUE, lat |-> Num(0), lon |-> Absent, radius_km |-> Absent]}

Asteroids ==
  {NoAsteroid}
  \cup [present : {TRUE},
        aphelion_distance : {Absent, Bad, Num(1)},
        impact_energy_tnt : {Absent, Bad, Num(10000)},
        mass_kg : {Absent, Num(1000000)},
        entry_speed_km_s : {Absent, Bad, Num(3)},
        relative_velocity_km_s : {Absent},
        relative_velocity : {Absent}, relativeVelocity : {Absent},
        cad_kps : {Absent},
        diameter : {Absent, Num(1000)},
        diameterMeters : {Absent}, diameter_m : {Absent},
        diameter_meters : {Absent}, est_min : {Absent}, est_max : {Absent}]

\* geojson: "absent", a FeatureCollection with a Polygon ("polygon"), one whose
\* ring is empty ("emptyring"); "built" is the polygon built server-side
GeoInputs == {"absent", "polygon", "emptyring"}

EmptyPayload ==
  [payload |-> FALSE, geojson |-> "absent", location |-> NoLocation,
   asteroid |-> NoAsteroid]
Requests ==
  {EmptyPayload}
  \cup [payload : {TRUE}, geojson : GeoInputs, location : Locations,
        asteroid : Asteroids]

(* ---------------- responses of the outbound services ---------------- *)
\* total_population: missing, null, a string, a whole number, or 1.5
TotalValues ==
  {Absent, Null, Bad, Frac(3, 2)} \cup {Num(n) : n \in 0 .. MaxPopulation}

NoCall ==
  [transport |-> "none", status_code |-> 0, body |-> "none", taskid |-> FALSE,
   data |-> "missing", total_population |-> Absent]
Upstream(t, c, b, id, d, tp) ==
  [transport |-> t, status_code |-> c, body |-> b, taskid |-> id,
   data |-> d, total_population |-> tp]

\* requests.get(WORLDPOP_BASE, ...): RequestException, or a response
StatsOutcomes ==
  {Upstream("error", 0, "none", FALSE, "missing", Absent),
   Upstream("ok", 500, "nonjson", FALSE, "missing", Absent),
   Upstream("ok", 500, "created", TRUE, "missing", Absent),
   Upstream("ok", 200, "nonjson", FALSE, "missing", Absent),
   Upstream("ok", 200, "created", TRUE, "missing", Absent),
   Upstream("ok", 200, "created", FALSE, "missing", Absent),
   Upstream("ok", 200, "ok", FALSE, "missing", Absent)}
  \cup {Upstream("ok", 200, "ok", FALSE, "dict", tp) : tp \in TotalValues}

\* requests.get(task_url): an exception, or a response
PollOutcomes ==
  {Upstream("error", 0, "none", FALSE, "missing", Absent),
   Upstream("ok", 500, "finished", FALSE, "dict", Num(1)),
   Upstream("ok", 200, "nonjson", FALSE, "missing", Absent),
   Upstream("ok", 200, "started", FALSE, "missing", Absent),
   Upstream("ok", 200, "finished", FALSE, "null", Absent)}
  \cup {Upstream("ok", 200, "finished", FALSE, "dict", tp) : tp \in TotalValues}

\* requests.get(NOMINATIM_BASE, ...): body "name" carries display_name
GeoOutcomes ==
  {Upstream("error", 0, "none", FALSE, "missing", Absent),
   Upstream("ok", 500, "name", FALSE, "missing", Absent),
   Upstream("ok", 200, "noname", FALSE, "missing", Absent),
   Upstream("ok", 200, "name", FALSE, "missing", Absent)}

(* ---------------- the HTTP response ---------------- *)
\* the locals of the physics block before it runs
NoPhysics ==
  [computed |-> FALSE, aphelion |-> Absent, diameter |-> Absent,
   velocity_km_s |-> Absent, mass |-> Absent, pressure_radius |-> Absent,
   cls |-> <<>>]

NoResp ==
  [kind |-> "none", status |-> 0, keys |-> {}, place |-> Absent,
   population |-> Absent, estimated_kills |-> Absent,
   lethality_used |-> Absent, physics |-> NoPhysics]
\* jsonify({...}), status
ErrorResp(status, keys) ==
  [kind |-> "error", status |-> status, keys |-> keys, place |-> Absent,
   population |-> Absent, estimated_kills |-> Absent,
   lethality_used |-> Absent, physics |-> NoPhysics]
\* an exception no handler catches
Crash ==
  [kind |-> "crash", status |-> 500, keys |-> {}, place |-> Absent,
   population |-> Absent, estimated_kills |-> Absent,
   lethality_used |-> Absent, physics |-> NoPhysics]
ResultKeys ==
  {"place", "population", "estimated_kills", "lethality_used", "crater_radius",
   "impact_velocity_km_s", "impact_energy_mt", "fireball_radius_km",
   "shock_wave_km", "wind_speed_kmh", "sismic_magnitude"}
PhysicsKeys ==
  {"crater_radius", "impact_velocity_km_s", "impact_energy_mt",
   "fireball_radius_km", "shock_wave_km", "wind_speed_kmh", "sismic_magnitude"}
ResultResp(pl, pop, kills, leth, fig) ==
  [kind |-> "result", status |-> 200, keys |-> ResultKeys, place |-> pl,
   population |-> pop, estimated_kills |-> kills, lethality_used |-> leth,
   physics |-> fig]

(* ---------------- the other endpoints at rest ---------------- *)
NoAuthResp ==
  [op |-> "none", email |-> "none", password |-> "none", user |-> 0,
   status |-> 0, keys |-> {}, msg |-> "none"]
AuthIdle ==
  /\ users = <<>>
  /\ lastSet = <<>>
  /\ authResp = NoAuthResp

NoFeedResp == [status |-> 0, keys |-> {}]
NoParams ==
  [start_date |-> [k |-> "absent", d |-> 0],
   end_date |-> [k |-> "absent", d |-> 0]]
FeedIdle ==
  /\ feedReq = [start_date |-> [k |-> "absent", d |-> 0],
                end_date |-> [k |-> "absent", d |-> 0], today |-> 0]
  /\ feedPc = "idle"
  /\ nasaCalls = 0
  /\ nasaParams = NoParams
  /\ nasaResp = "none"
  /\ feedResp = NoFeedResp

MailIdle ==
  /\ mailEnv = [to |-> "none", token |-> "ok", text |-> "ok", html |-> "ok",
                enabled |-> FALSE, service |-> "ok"]
  /\ mailPc = "idle"
  /\ mailSent = 0
  /\ mailResult = "none"

SimIdle ==
  /\ req = EmptyPayload
  /\ pc = "idle"
  /\ coords = <<>>
  /\ geojson = "unset"
  /\ wp_json = NoCall
  /\ statsCalls = 0
  /\ tj = NoCall
  /\ polls = 0
  /\ pollFinished = FALSE
  /\ population = Absent
  /\ r = NoCall
  /\ geoCalls = 0
  /\ place = Absent
  /\ lethality = Absent
  /\ estimated_kills = Absent
  /\ physics = NoPhysics
  /\ resp = NoResp

Init ==
  /\ AuthIdle /\ FeedIdle /\ MailIdle
  /\ req \in Requests
  /\ pc = "receive"
  /\ coords = <<>>
  /\ geojson = "unset"
  /\ wp_json = NoCall
  /\ statsCalls = 0
  /\ tj = NoCall
  /\ polls = 0
  /\ pollFinished = FALSE
  /\ population = Absent
  /\ r = NoCall
  /\ geoCalls = 0
  /\ place = Absent
  /\ lethality = Absent
  /\ estimated_kills = Absent
  /\ physics = NoPhysics
  /\ resp = NoResp

\* return <response>: the request is over
Return(response) ==
  /\ pc' = "done"
  /\ resp' = response

(* ---------------- lines 237-296: payload, aphelion, validation ---------- *)
\* AphelionRaises looking only for the asteroid object, not for the field
AphelionRaisesWithoutAsteroid(asteroid) ==
  ~asteroid.present

\* float(asteroid['orbital_data']['aphelion_distance']) raises
AphelionRaises(asteroid) ==
  \/ ~asteroid.present
  \/ FloatRaises(asteroid.aphelion_distance)

\* LocationRaises with only the latitude converted
LocationRaisesLatOnly(location) ==
  FloatRaises(location.lat)

\* float(location.get("lat")), float(location.get("lon")),
\* float(location.get("radius_km", 5.0)) raise
LocationRaises(location) ==
  \/ FloatRaises(location.lat)
  \/ FloatRaises(location.lon)
  \/ (location.radius_km.k # "absent" /\ FloatRaises(location.radius_km))

(* ---------------- lines 264-296: the polygon ---------------- *)
\* Angles are kept as terms.  A sine or cosine is [m, t]: m thousandths, and
\* t the sign of the float's distance from an exact zero (math.sin of
\* math.radians(360.0) is -2.4e-16, not 0).
Steps == 64

\* 1000 * sin(j * 360/64 degrees), j = 0 .. 16
QuarterSine ==
  <<0, 98, 195, 290, 383, 471, 556, 634, 707, 773, 831, 882, 924, 957, 981,
    995, 1000>>

\* 1000 * sin(i * 360/64 degrees), any i >= 0
SineOfStep(i) ==
  LET j == i % Steps
      q == Steps \div 4
  IN  IF j <= q THEN QuarterSine[j + 1]
      ELSE IF j <= 2 * q THEN QuarterSine[2 * q - j + 1]
      ELSE IF j <= 3 * q THEN 0 - QuarterSine[j - 2 * q + 1]
      ELSE 0 - QuarterSine[Steps - j + 1]

\* math.sin(math.radians(float(i) * (360.0 / steps))): exactly 0.0 at bearing
\* 0, 1.2e-16 at 180, -2.4e-16 at 360
FloatSin(i) ==
  [m |-> SineOfStep(i),
   t |-> IF i = Steps \div 2 THEN 1 ELSE IF i = Steps THEN 0 - 1 ELSE 0]

\* math.cos(math.radians(...)): exactly 1.0 at bearings 0 and 360, 6.1e-17 at
\* 90, -1.8e-16 at 270
FloatCos(i) ==
  [m |-> SineOfStep(i + Steps \div 4),
   t |-> IF i = Steps \div 4 THEN 1
         ELSE IF i = 3 * (Steps \div 4) THEN 0 - 1 ELSE 0]

ExactZero == [m |-> 0, t |-> 0]

\* lon1 + math.atan2(y, x) with y = sin(bearing) * sin(d) * cos(lat1): y is
\* +-0.0 when the radius is 0; a y of 1e-19 is lost in the sum when lon1 is a
\* degree or more (radii of a few km) and is the sum when lon1 is 0
LongitudeShift(lon_v, radius_v, i) ==
  IF radius_v = 0 THEN ExactZero
  ELSE IF FloatSin(i).m = 0 /\ lon_v # 0 THEN ExactZero
  ELSE FloatSin(i)

\* destination_point(lat, lon, bearing, radius_km), returned latitude first;
\* lat2 is a function of lat, d and cos(bearing), lon2 of those and the shift
destination_point(lat_v, lon_v, i, radius_v) ==
  [lat2 |-> [lat |-> lat_v, d |-> radius_v, cos |-> FloatCos(i)],
   lon2 |-> [lon |-> lon_v, lat |-> lat_v, d |-> radius_v,
             cos |-> FloatCos(i), shift |-> LongitudeShift(lon_v, radius_v, i)]]

\* radius_km = float(location.get("radius_km", 5.0)) of a valid location
RadiusKm(location) ==
  IF location.radius_km.k = "absent" THEN DefaultRadius
  ELSE location.radius_km.v

\* for i in range(steps + 1): coords.append([lon2, lat2])
Polygon(location) ==
  [n \in 1 .. (Steps + 1) |->
     LET pt == destination_point(location.lat.v, location.lon.v, n - 1,
                                 RadiusKm(location))
     IN  <<pt.lon2, pt.lat2>>]

Receive ==
  /\ pc = "receive"
  /\ UNCHANGED <<authVars, feedVars, mailVars>>
  /\ UNCHANGED <<req, wp_json, statsCalls, tj, polls, pollFinished, population,
                 r, geoCalls, place, lethality, estimated_kills, physics>>
  /\ IF ~req.payload
       THEN Return(ErrorResp(400, {"error"})) /\ UNCHANGED <<coords, geojson>>
     ELSE IF AphelionRaises(req.asteroid)
       THEN Return(Crash) /\ UNCHANGED <<coords, geojson>>
     ELSE IF req.geojson = "absent" /\ ~req.location.present
       THEN Return(ErrorResp(400, {"error"})) /\ UNCHANGED <<coords, geojson>>
     ELSE IF req.geojson = "absent" /\ LocationRaises(req.location)
       THEN Return(ErrorResp(400, {"error"})) /\ UNCHANGED <<coords, geojson>>
     ELSE /\ geojson' = IF req.geojson = "absent" THEN "built" ELSE req.geojson
          /\ coords' = IF req.geojson = "absent"
                         THEN Polygon(req.location)
                         ELSE <<>>
          /\ pc' = "stats"
          /\ UNCHANGED resp

(* ---------------- lines 298-351: the stats call ---------------- *)
\* StatsFailed without the status check of line 314
StatsFailedNoStatusCheck(o) ==
  o.transport = "error"

\* requests.get raised RequestException, or resp.status_code != 200
StatsFailed(o) ==
  o.transport = "error" \/ o.status_code # 200

\* resp.json() raises
JsonRaises(o) == o.body = "nonjson"

\* wp_json.get("status") == "created" and "taskid" in wp_json
IsTaskCreated(o) == o.body = "created" /\ o.taskid

\* SyncPopulation reading total_population next to "data", where the stats
\* answer never has it
SyncPopulationTopLevel(o) ==
  Null

\* wp_json.get("data", {}).get("total_population") if wp_json.get("data")
\* else None
SyncPopulation(o) ==
  IF o.data = "dict" /\ ~IsNone(o.total_population)
    THEN o.total_population
    ELSE Null

\* if population is None: return 500
ExtractOrContinue(pop) ==
  IF IsNone(pop)
    THEN Return(ErrorResp(500, {"error", "raw"}))
    ELSE pc' = "place" /\ UNCHANGED resp

CallStats ==
  /\ pc = "stats"
  /\ UNCHANGED <<authVars, feedVars, mailVars>>
  /\ UNCHANGED <<req, coords, geojson, tj, polls, pollFinished, r, geoCalls, place,
                 lethality, estimated_kills, physics>>
  /\ statsCalls' = statsCalls + 1
  /\ \E o \in StatsOutcomes :
       /\ wp_json' = o
       /\ IF StatsFailed(o)
            THEN Return(ErrorResp(502, {"error", "details"}))
                 /\ UNCHANGED population
          ELSE IF JsonRaises(o)
            THEN Return(Crash) /\ UNCHANGED population
          ELSE IF IsTaskCreated(o)
            THEN pc' = "poll" /\ population' = Null /\ UNCHANGED resp
          ELSE /\ population' = SyncPopulation(o)
               /\ ExtractOrContinue(SyncPopulation(o))

(* ---------------- lines 321-334: the polling loop ---------------- *)
\* requests.get(task_url) raises, or t.json() raises on a 200 response, or
\* tj.get("data", {}) is None
PollRaises(o) ==
  \/ o.transport = "error"
  \/ (o.status_code = 200 /\ JsonRaises(o))
  \/ (o.status_code = 200 /\ o.body = "finished" /\ o.data = "null")

\* t.status_code == 200 and tj.get("status") == "finished"
PollIsFinished(o) ==
  o.transport = "ok" /\ o.status_code = 200 /\ o.body = "finished"

\* FinishedPopulation reading the stats response's (absent) figure instead of
\* the task response's: always the default
FinishedPopulationDefaultOnly(o) ==
  Num(0)

\* tj.get("data", {}).get("total_population", 0)
FinishedPopulation(o) ==
  IF o.data = "dict" /\ o.total_population.k # "absent"
    THEN o.total_population
    ELSE Num(0)

\* LoopExhausted for a loop of range(31)
LoopExhaustedLate(n) ==
  n > MaxPolls

\* for _ in range(30): ... else: return 504
LoopExhausted(n) ==
  n >= MaxPolls

Poll ==
  /\ pc = "poll"
  /\ UNCHANGED <<authVars, feedVars, mailVars>>
  /\ ~LoopExhausted(polls)
  /\ UNCHANGED <<req, coords, geojson, wp_json, statsCalls, r, geoCalls, place,
                 lethality, estimated_kills, physics>>
  /\ polls' = polls + 1
  /\ \E o \in PollOutcomes :
       /\ tj' = o
       /\ IF PollRaises(o)
            THEN Return(Crash) /\ UNCHANGED <<population, pollFinished>>
          ELSE IF PollIsFinished(o)
            THEN /\ pollFinished' = TRUE
                 /\ population' = FinishedPopulation(o)
                 /\ ExtractOrContinue(FinishedPopulation(o))
          ELSE /\ UNCHANGED <<population, pollFinished>>
               /\ IF LoopExhausted(polls + 1)
                    THEN Return(ErrorResp(504, {"error"}))
                    ELSE UNCHANGED <<pc, resp>>

(* ---------------- lines 353-380: reverse geocoding ---------------- *)
Str == [k |-> "str", v |-> 0]

\* the centroid of features[0]'s ring can be computed (a non-empty ring)
HasCentroid(g) == g \in {"polygon", "built"}

\* PlaceLookupEscapes without the try/except around requests.get
PlaceLookupEscapesUncaught(o) ==
  o.transport = "error"

\* an exception of the lookup that "except Exception" does not catch
PlaceLookupEscapes(o) ==
  FALSE

\* r.json().get("display_name") if r.status_code == 200, else the initial None
PlaceOf(o) ==
  IF o.transport = "ok" /\ o.status_code = 200 /\ o.body = "name"
    THEN Str
    ELSE Null

PlaceLookup ==
  /\ pc = "place"
  /\ UNCHANGED <<authVars, feedVars, mailVars>>
  /\ UNCHANGED <<req, coords, geojson, wp_json, statsCalls, tj, polls, pollFinished,
                 population, lethality, estimated_kills, physics>>
  /\ IF HasCentroid(geojson)
       THEN /\ geoCalls' = geoCalls + 1
            /\ \E o \in GeoOutcomes :
                 /\ r' = o
                 /\ IF PlaceLookupEscapes(o)
                      THEN Return(Crash) /\ UNCHANGED place
                      ELSE /\ place' = PlaceOf(o)
                           /\ pc' = "lethality"
                           /\ UNCHANGED resp
       ELSE /\ place' = Null
            /\ pc' = "lethality"
            /\ UNCHANGED <<r, geoCalls, resp>>

(* ---------------- lines 382-427: lethality ---------------- *)
\* The energy in tons of TNT the estimator works with, a fraction num/den:
\*   "raise" float(v_km_s) or float(mass_kg) raises, before lethality is bound
\*   "none"  impact_energy_tnt stays None
\*   "bad"   float(impact_energy_tnt) raises, after lethality = 0.5
\*   "val"   the energy num/den; 0.5*m*(1000 v)^2 / 4.184e9 = m*v*v / 8368
EnergyOf(asteroid) ==
  LET impact == asteroid.impact_energy_tnt
      mass_kg == asteroid.mass_kg
      v_km_s == PyOr(asteroid.entry_speed_km_s, asteroid.relative_velocity_km_s)
  IN  IF IsNone(impact) /\ Truthy(mass_kg) /\ Truthy(v_km_s)
        THEN IF FloatRaises(v_km_s) \/ FloatRaises(mass_kg)
               THEN [k |-> "raise", num |-> 0, den |-> 1]
               ELSE [k |-> "val", num |-> mass_kg.v * v_km_s.v * v_km_s.v,
                     den |-> 8368]
      ELSE IF IsNone(impact)
        THEN [k |-> "none", num |-> 0, den |-> 1]
      ELSE IF FloatRaises(impact)
        THEN [k |-> "bad", num |-> 0, den |-> 1]
      ELSE [k |-> "val", num |-> impact.v, den |-> Den(impact)]

\* LethalityOfEnergy with strict comparisons: an energy exactly on a
\* threshold falls into the band below
LethalityOfEnergyStrict(num, den) ==
  LET e == num \div den
  IN  IF e > 1000000 THEN 99
      ELSE IF e > 10000 THEN 90
      ELSE IF e > 100 THEN 75
      ELSE IF e > 1 THEN 50
      ELSE 25

\* the threshold table, lethality in hundredths; for a whole threshold t,
\* num/den >= t exactly when the whole part of num/den is >= t
LethalityOfEnergy(num, den) ==
  LET e == num \div den
  IN  IF e >= 1000000 THEN 99
      ELSE IF e >= 10000 THEN 90
      ELSE IF e >= 100 THEN 75
      ELSE IF e >= 1 THEN 50
      ELSE 25

\* 0.9 if radius_km_val >= 5 else 0.5
RadiusHeuristic(radius_km_val) ==
  IF radius_km_val >= RadiusThreshold THEN 90 ELSE 50

\* RadiusVal that never looks at the location
RadiusValDefaultOnly(location) ==
  DefaultRadius

\* float(location.get("radius_km", 5.0)) if location else 5.0, inside
\* try/except: 5.0 when float() raises
RadiusVal(location) ==
  IF ~location.present \/ location.radius_km.k = "absent" THEN DefaultRadius
  ELSE IF FloatRaises(location.radius_km) THEN DefaultRadius
  ELSE location.radius_km.v

\* PyRound as int() alone would do it: truncation
PyRoundTruncating(n, d) ==
  n \div d

\* round(n / d) of Python 3: to the nearest integer, ties to the even one
PyRound(n, d) ==
  LET q == n \div d
      rem == n % d
  IN  IF 2 * rem < d THEN q
      ELSE IF 2 * rem > d THEN q + 1
      ELSE IF q % 2 = 0 THEN q ELSE q + 1

\* int(round(population * lethality)); None when the product raises
KillsOf(pop, pct) ==
  IF pop.k # "num" THEN Null ELSE Num(PyRound(pop.v * pct, 100 * Den(pop)))

\* the whole try block: the lethality left bound (Absent: never assigned) and
\* estimated_kills
LethalityStage(asteroid, location, pop) ==
  IF asteroid.present
    THEN LET e == EnergyOf(asteroid)
         IN  IF e.k = "raise"
               THEN [lethality |-> Absent, estimated_kills |-> Null]
             ELSE IF e.k = "bad"
               THEN [lethality |-> Num(50), estimated_kills |-> Null]
             ELSE LET pct == IF e.k = "val"
                               THEN LethalityOfEnergy(e.num, e.den)
                               ELSE RadiusHeuristic(RadiusVal(location))
                  IN  [lethality |-> Num(pct),
                       estimated_kills |-> KillsOf(pop, pct)]
    ELSE IF location.present /\ location.radius_km.k # "absent"
              /\ FloatRaises(location.radius_km)
           THEN [lethality |-> Absent, estimated_kills |-> Null]
           ELSE LET pct == RadiusHeuristic(RadiusVal(location))
                IN  [lethality |-> Num(pct),
                     estimated_kills |-> KillsOf(pop, pct)]

Lethality ==
  /\ pc = "lethality"
  /\ UNCHANGED <<authVars, feedVars, mailVars>>
  /\ UNCHANGED <<req, coords, geojson, wp_json, statsCalls, tj, polls, pollFinished,
                 population, r, geoCalls, place, physics, resp>>
  /\ lethality' = LethalityStage(req.asteroid, req.location, population).lethality
  /\ estimated_kills' =
       LethalityStage(req.asteroid, req.location, population).estimated_kills
  /\ pc' = "physics"

(* ---------------- lines 429-506: physics ---------------- *)
\* The figures are kept as the terms the code builds them from: which number
\* divides 2 G M, which length is halved under the overpressure, which
\* velocity and diameter enter the energy, and the float class of each result.
Density == 2500

\* 1 AU in metres, 149597870700 = hi * 10^6 + lo (get_asteroid_data only)
AstronomicalUnit == [hi |-> 149597, lo |-> 870700]
NoConversion == [hi |-> 0, lo |-> 1]

\* get_asteroid_data: float(data['orbital_data']['aphelion_distance'])
\*                    * 149597870700
GetAsteroidDataAphelion(x) == [value |-> x.v, factor |-> AstronomicalUnit]

\* simulate_impact: float(asteroid['orbital_data']['aphelion_distance'])
SimulateImpactAphelion(x) == [value |-> x.v, factor |-> NoConversion]

DiameterAliases ==
  <<"diameter", "diameterMeters", "diameter_m", "diameter_meters">>

\* k in asteroid and asteroid[k] is not None, and float(asteroid[k]) succeeds
AliasNumeric(asteroid, k) ==
  ~IsNone(asteroid[k]) /\ ~FloatRaises(asteroid[k])

\* AliasDiameter stopping at the first alias that is present, numeric or not
AliasDiameterFirstPresent(asteroid) ==
  IF \E i \in 1 .. Len(DiameterAliases) : ~IsNone(asteroid[DiameterAliases[i]])
    THEN LET i == CHOOSE i \in 1 .. Len(DiameterAliases) :
                    /\ ~IsNone(asteroid[DiameterAliases[i]])
                    /\ \A j \in 1 .. (i - 1) :
                         IsNone(asteroid[DiameterAliases[j]])
         IN  IF FloatRaises(asteroid[DiameterAliases[i]])
               THEN Null
               ELSE asteroid[DiameterAliases[i]]
    ELSE Null

\* the alias loop of lines 435-441: break at the first float() that succeeds
AliasDiameter(asteroid) ==
  IF \E i \in 1 .. Len(DiameterAliases) :
       AliasNumeric(asteroid, DiameterAliases[i])
    THEN LET i == CHOOSE i \in 1 .. Len(DiameterAliases) :
                    /\ AliasNumeric(asteroid, DiameterAliases[i])
                    /\ \A j \in 1 .. (i - 1) :
                         ~AliasNumeric(asteroid, DiameterAliases[j])
         IN  asteroid[DiameterAliases[i]]
    ELSE Null

\* (float(mn) + float(mx)) / 2.0 when both are not None; est_min and est_max
\* are estimated_diameter.meters.estimated_diameter_min / _max
EstimatedDiameter(asteroid) ==
  LET mn == asteroid.est_min
      mx == asteroid.est_max
  IN  IF IsNone(mn) \/ IsNone(mx) \/ FloatRaises(mn) \/ FloatRaises(mx)
        THEN Null
        ELSE Frac(mn.v + mx.v, 2)

ResolveDiameter(asteroid) ==
  IF ~asteroid.present
    THEN Null
    ELSE IF ~IsNone(AliasDiameter(asteroid))
           THEN AliasDiameter(asteroid)
           ELSE EstimatedDiameter(asteroid)

\* entry_speed_km_s or relative_velocity_km_s or relative_velocity or
\* relativeVelocity
VelocityOrChain(asteroid) ==
  PyOr(asteroid.entry_speed_km_s,
       PyOr(asteroid.relative_velocity_km_s,
            PyOr(asteroid.relative_velocity, asteroid.relativeVelocity)))

\* lines 458-481; cad_kps is
\* close_approach_data[0].relative_velocity.kilometers_per_second
ResolveVelocity(asteroid) ==
  LET chain == IF asteroid.present THEN VelocityOrChain(asteroid) ELSE Null
      picked == IF IsNone(chain) /\ asteroid.present
                  THEN asteroid.cad_kps
                  ELSE chain
  IN  IF IsNone(picked) \/ FloatRaises(picked)
        THEN [src |-> "impact_velocity", v |-> 0]
        ELSE [src |-> "explicit", v |-> picked.v]

\* mass = density * volume, volume = (4/3) pi (diameter/2)^3
MassOf(asteroid, diameter) ==
  [density |-> Density, diameter |-> diameter]

\* the length halved in 15 * k_energy_mt**(1/3) / (20 * (<length>/2))
PressureRadius(diameter, crater_diameter) ==
  [half_of |-> diameter]

\* 0.5 * mass * velocity_m_s**2 of a diameter n * 10^e metres at 1 km/s or
\* more is at least 6.5e2 * 10^(3e) * 1e6 = 6.5 * 10^(3e + 8); beyond the
\* largest double, 1.8 * 10^308, the product is inf, silently
EnergyOverflows(diameter) ==
  3 * Exp(diameter) + 8 >= 308

\* the float class of each figure of the response: with k_energy = inf the
\* energy, crater, fireball, shock wave and magnitude are inf, and the wind
\* speed inf / sqrt(inf) is nan
FieldClasses(diameter) ==
  [f \in PhysicsKeys |->
     IF f = "impact_velocity_km_s" \/ ~EnergyOverflows(diameter) THEN "finite"
     ELSE IF f = "wind_speed_kmh" THEN "nan"
     ELSE "inf"]

PhysicsOf(asteroid) ==
  LET diameter == ResolveDiameter(asteroid)
  IN  [computed |-> TRUE,
       aphelion |-> SimulateImpactAphelion(asteroid.aphelion_distance),
       diameter |-> diameter,
       velocity_km_s |-> ResolveVelocity(asteroid),
       mass |-> MassOf(asteroid, diameter),
       pressure_radius |-> PressureRadius("diameter", "crater_diameter"),
       cls |-> FieldClasses(diameter)]

\* math.sqrt(2 G M / aphelion) raises (line 456), (diameter/2)**3 raises on
\* None (line 486), the division by 20*(diameter/2) raises (line 501),
\* math.log10 raises on a zero energy (line 506)
PhysicsRaises(asteroid) ==
  \/ asteroid.aphelion_distance.v <= 0
  \/ IsNone(ResolveDiameter(asteroid))
  \/ ResolveDiameter(asteroid).v <= 0
  \/ (ResolveVelocity(asteroid).src = "explicit"
        /\ ResolveVelocity(asteroid).v <= 0)

Physics ==
  /\ pc = "physics"
  /\ UNCHANGED <<authVars, feedVars, mailVars>>
  /\ UNCHANGED <<req, coords, geojson, wp_json, statsCalls, tj, polls, pollFinished,
                 population, r, geoCalls, place, lethality, estimated_kills>>
  /\ IF PhysicsRaises(req.asteroid)
       THEN Return(Crash) /\ UNCHANGED physics
       ELSE /\ physics' = PhysicsOf(req.asteroid)
            /\ pc' = "assemble"
            /\ UNCHANGED resp

(* ---------------- lines 511-525: the response ---------------- *)
\* int(round(population)) raises, or float(lethality) reads an unbound local
AssembleRaises(pop, leth) ==
  pop.k # "num" \/ leth.k # "num"

\* int(round(population))
RoundedPopulation(pop) == Num(PyRound(pop.v, Den(pop)))

Assemble ==
  /\ pc = "assemble"
  /\ UNCHANGED <<authVars, feedVars, mailVars>>
  /\ UNCHANGED <<req, coords, geojson, wp_json, statsCalls, tj, polls, pollFinished,
                 population, r, geoCalls, place, lethality, estimated_kills,
                 physics>>
  /\ IF AssembleRaises(population, lethality)
       THEN Return(Crash)
       ELSE Return(ResultResp(place, RoundedPopulation(population),
                              estimated_kills, lethality, physics))

Next ==
  \/ Receive
  \/ CallStats
  \/ Poll
  \/ PlaceLookup
  \/ Lethality
  \/ Physics
  \/ Assemble
  \/ CallStats
  \/ Poll
  \/ PlaceLookup

Spec == Init /\ [][Next]_vars

(* ------- the stages after the outbound calls, over a wider request ------- *)
\* A request whose stats answer was synchronous and whose place was found;
\* the lethality, physics and response stages run on descriptors that vary
\* the energy fields, the velocity aliases and the diameter aliases in turn.
StageAsteroid ==
  [NoAsteroid EXCEPT !.present = TRUE, !.aphelion_distance = Num(1),
                     !.diameter = Num(1000)]

EnergyInputs ==
  {Absent, Null, Bad, Frac(1, 10), Num(0), Num(1), Num(99), Num(100),
   Num(9999), Num(10000), Num(999999), Num(1000000)}
MassInputs == {Absent, Bad, Num(0), Num(1), Num(1000000)}

LethalityAsteroids ==
  {[StageAsteroid EXCEPT !.impact_energy_tnt = e, !.mass_kg = m,
                         !.entry_speed_km_s = s,
                         !.relative_velocity_km_s = w] :
     e \in EnergyInputs, m \in MassInputs,
     s \in {Absent, Bad, Num(0), Num(3)}, w \in {Absent, Num(0), Num(20)}}

VelocityAsteroids ==
  {[StageAsteroid EXCEPT !.aphelion_distance = a, !.entry_speed_km_s = s,
                         !.relative_velocity_km_s = w,
                         !.relative_velocity = x, !.relativeVelocity = y,
                         !.cad_kps = z] :
     a \in {Num(1), Num(2)},
     s \in {Absent, Bad, Num(0), Num(3)}, w \in {Absent, Num(0), Num(20)},
     x \in {Absent, Bad, Num(7)}, y \in {Absent, Num(0), Num(9)},
     z \in {Absent, Bad, Num(11)}}

DiameterAsteroids ==
  {[StageAsteroid EXCEPT !.diameter = d1, !.diameterMeters = d2,
                         !.diameter_m = d3, !.diameter_meters = d4,
                         !.est_min = mn, !.est_max = mx] :
     d1 \in {Absent, Null, Bad, Num(0), Num(1000), Big(1, 100)},
     d2 \in {Absent, Bad, Num(500)}, d3 \in {Absent, Num(300)},
     d4 \in {Absent, Bad, Num(200)},
     mn \in {Absent, Bad, Num(100)}, mx \in {Absent, Bad, Num(201)}}

StageLocations == {l \in Locations : l.present /\ ~LocationRaises(l)}

StageRequests ==
  [payload : {TRUE}, geojson : {"absent"}, location : StageLocations,
   asteroid : LethalityAsteroids]
  \cup [payload : {TRUE}, geojson : {"absent"},
        location : {CHOOSE l \in StageLocations : l.radius_km = Absent},
        asteroid : VelocityAsteroids \cup DiameterAsteroids]

InitStages ==
  /\ AuthIdle /\ FeedIdle /\ MailIdle
  /\ req \in StageRequests
  /\ pc = "lethality"
  /\ coords = Polygon(req.location)
  /\ geojson = "built"
  /\ \E p \in 0 .. MaxPopulation :
       /\ wp_json = Upstream("ok", 200, "ok", FALSE, "dict", Num(p))
       /\ population = Num(p)
  /\ statsCalls = 1
  /\ tj = NoCall
  /\ polls = 0
  /\ pollFinished = FALSE
  /\ r = Upstream("ok", 200, "name", FALSE, "missing", Absent)
  /\ geoCalls = 1
  /\ place = Str
  /\ lethality = Absent
  /\ estimated_kills = Absent
  /\ physics = NoPhysics
  /\ resp = NoResp

NextStages ==
  \/ Lethality
  \/ Physics
  \/ Assemble

SpecStages == InitStages /\ [][NextStages]_vars

(* ------- the polygon builder, over a wider set of locations ------- *)
PolygonLocations ==
  [present : {TRUE},
   lat : {Num(0 - 45), Num(0), Num(10), Num(45), Num(60)},
   lon : {Num(0 - 46), Num(0), Num(1), Num(20), Num(179)},
   radius_km : {Absent, Num(0)} \cup {Num(n) : n \in Radii}]

InitPolygon ==
  /\ AuthIdle /\ FeedIdle /\ MailIdle
  /\ req \in [payload : {TRUE}, geojson : {"absent"},
              location : PolygonLocations, asteroid : {StageAsteroid}]
  /\ pc = "receive"
  /\ coords = <<>>
  /\ geojson = "unset"
  /\ wp_json = NoCall
  /\ statsCalls = 0
  /\ tj = NoCall
  /\ polls = 0
  /\ pollFinished = FALSE
  /\ population = Absent
  /\ r = NoCall
  /\ geoCalls = 0
  /\ place = Absent
  /\ lethality = Absent
  /\ estimated_kills = Absent
  /\ physics = NoPhysics
  /\ resp = NoResp

NextPolygon ==
  \/ Receive

SpecPolygon == InitPolygon /\ [][NextPolygon]_vars

(* ---------------- users and the auth endpoints ---------------- *)
Emails == {"test@example.com", "newuser@example.com"}
Passwords == {"password123", "my_brand_new_password"}
Submitted == Passwords \cup {"wrongpassword"}
Salts == {1, 2}
MaxUsers == 3

\* the password_hash column of a user created without a password
NoHash == [salt |-> 0, digest |-> <<>>]

\* werkzeug: the hash stores a fresh salt and the digest of salt and password
generate_password_hash(password, salt) ==
  [salt |-> salt, digest |-> <<salt, password>>]

check_password_hash(pwhash, password) ==
  pwhash.digest = <<pwhash.salt, password>>

\* the password setter
SetPassword(user, password, salt) ==
  [user EXCEPT !.password_hash = generate_password_hash(password, salt)]

VerifyPasswordAnyHash(user, password) ==
  user.password_hash # NoHash

verify_password(user, password) ==
  check_password_hash(user.password_hash, password)

\* check_password_hash(None, ...) raises
VerifyRaises(user) ==
  user.password_hash = NoHash

\* the unique index on user.email: a commit that breaks it is rolled back
UniqueEmail(table) ==
  \A i, j \in 1 .. Len(table) : table[i].email = table[j].email => i = j

Insert(user) ==
  IF UniqueEmail(Append(users, user)) THEN Append(users, user) ELSE users

\* User.query.filter_by(email=...).first(), 0 for None
FirstByEmail(email) ==
  LET ids == {i \in 1 .. Len(users) : users[i].email = email}
  IN IF ids = {} THEN 0 ELSE CHOOSE i \in ids : \A j \in ids : i <= j

SeedUser(salt) ==
  [email |-> "test@example.com",
   password_hash |-> generate_password_hash("password123", salt),
   google |-> FALSE]

AuthAnswer(op, email, password, user, status, keys, msg) ==
  [op |-> op, email |-> email, password |-> password, user |-> user,
   status |-> status, keys |-> keys, msg |-> msg]

TokenKeys == {"access_token", "refresh_token"}

Login ==
  \E email \in Emails, password \in Submitted :
    LET u == FirstByEmail(email) IN
    /\ authResp' =
         IF u = 0
         THEN AuthAnswer("login", email, password, 0, 401, {"msg"},
                         "Bad username or password")
         ELSE IF VerifyRaises(users[u])
         THEN AuthAnswer("login", email, password, u, 500, {}, "none")
         ELSE IF verify_password(users[u], password)
         THEN AuthAnswer("login", email, password, u, 200, TokenKeys, "none")
         ELSE AuthAnswer("login", email, password, u, 401, {"msg"},
                         "Bad username or password")
    /\ UNCHANGED <<users, lastSet>>
    /\ UNCHANGED <<simVars, feedVars, mailVars>>

EmailExistsNever(email) ==
  FALSE

EmailExists(email) ==
  FirstByEmail(email) # 0

Register ==
  \E email \in Emails, password \in Passwords, confirm \in Passwords,
     salt \in Salts :
    LET user == SetPassword([email |-> email, password_hash |-> NoHash,
                             google |-> FALSE], password, salt)
        created == Insert(user) # users
    IN
    /\ Len(users) < MaxUsers
    /\ IF EmailExists(email)
       THEN /\ authResp' = AuthAnswer("register", email, password, 0, 400,
                  {"msg"}, "A user with this email address already exists.")
            /\ UNCHANGED <<users, lastSet>>
       ELSE IF password # confirm
       THEN /\ authResp' = AuthAnswer("register", email, password, 0, 400,
                                      {"msg"}, "mismatch")
            /\ UNCHANGED <<users, lastSet>>
       ELSE /\ users' = Insert(user)
            /\ lastSet' = IF created THEN Append(lastSet, password)
                          ELSE lastSet
            /\ authResp' =
                 IF created
                 THEN AuthAnswer("register", email, password,
                                 Len(users) + 1, 201, {"msg"}, "none")
                 ELSE AuthAnswer("register", email, password, 0, 500, {},
                                 "none")
    /\ UNCHANGED <<simVars, feedVars, mailVars>>

GoogleLogin ==
  \E email \in Emails :
    LET u == FirstByEmail(email)
        user == [email |-> email, password_hash |-> NoHash, google |-> TRUE]
    IN
    /\ Len(users) < MaxUsers
    /\ IF u # 0
       THEN /\ authResp' = AuthAnswer("google", email, "none", u, 200,
                                      TokenKeys, "none")
            /\ UNCHANGED <<users, lastSet>>
       ELSE /\ users' = Insert(user)
            /\ lastSet' = Append(lastSet, "none")
            /\ authResp' = AuthAnswer("google", email, "none",
                                      Len(users) + 1, 200, TokenKeys, "none")
    /\ UNCHANGED <<simVars, feedVars, mailVars>>

NewPassword ==
  \E token \in 0 .. Len(users), password \in Passwords, salt \in Salts :
    /\ IF token = 0
       THEN /\ authResp' = AuthAnswer("new-password", "none", password, 0,
                                      400, {"msg"}, "none")
            /\ UNCHANGED <<users, lastSet>>
       ELSE /\ users' = [users EXCEPT
                           ![token] = SetPassword(@, password, salt)]
            /\ lastSet' = [lastSet EXCEPT ![token] = password]
            /\ authResp' = AuthAnswer("new-password", users[token].email,
                                      password, token, 200, {"status"}, "ok")
    /\ UNCHANGED <<simVars, feedVars, mailVars>>

InitAuth ==
  /\ SimIdle /\ FeedIdle /\ MailIdle
  /\ \E salt \in Salts : users = <<SeedUser(salt)>>
  /\ lastSet = <<"password123">>
  /\ authResp = NoAuthResp

NextAuth ==
  \/ Login
  \/ Register
  \/ GoogleLogin
  \/ NewPassword

SpecAuth == InitAuth /\ [][NextAuth]_vars

(* ---------------- the feed endpoint ---------------- *)
\* A date argument is a string: "" ("empty"), a date written YYYY-MM-DD
\* ("iso"), the same date with a one-digit month or day such as 2025-1-5
\* ("short"), a well-formed string that names no day such as 2025-02-30
\* ("nodate"), anything else ("bad"); d is the day it names.  "absent" is an
\* argument the query does not have.
DateStr(k, d) == [k |-> k, d |-> d]
Days == 0 .. 3
Todays == {1, 2}
StartDates ==
  {DateStr("empty", 0), DateStr("bad", 0), DateStr("nodate", 0)}
  \cup {DateStr(k, d) : k \in {"iso", "short"}, d \in Days}
EndDates == {DateStr("absent", 0)} \cup StartDates

\* datetime.strptime(s, "%Y-%m-%d") raises ValueError; %m and %d accept one
\* digit
StrptimeRaises(s) == s.k \notin {"iso", "short"}
\* datetime.strptime(s, "%Y-%m-%d").date()
Strptime(s) == s.d
\* date.isoformat(): always zero-padded
Isoformat(d) == DateStr("iso", d)

\* ArgsEndDate defaulting to today instead of start_date
ArgsEndDateOrToday(args) ==
  IF args.end_date.k = "absent" THEN Isoformat(args.today)
  ELSE args.end_date

\* request.args.get("end_date", start_date)
ArgsEndDate(args) ==
  IF args.end_date.k = "absent" THEN args.start_date ELSE args.end_date

\* if not start_date: start_date = date.today().isoformat();
\*                    end_date = start_date
Dates(args) ==
  IF args.start_date.k = "empty"
    THEN [start_date |-> Isoformat(args.today),
          end_date |-> Isoformat(args.today)]
    ELSE [start_date |-> args.start_date, end_date |-> ArgsEndDate(args)]

FeedAnswer(status, keys) == [status |-> status, keys |-> keys]

\* the answer of api.nasa.gov: no answer, an error status, a body that is
\* not JSON, a JSON value that is no object, a feed with an object without
\* close approaches, a feed
NasaOutcomes ==
  {"error", "http_error", "nonjson", "nodict", "empty_cad", "feed"}

FeedValidate ==
  /\ feedPc = "validate"
  /\ UNCHANGED <<simVars, authVars, mailVars>>
  /\ UNCHANGED <<feedReq, nasaCalls, nasaResp>>
  /\ LET dates == Dates(feedReq)
         sd == Strptime(dates.start_date)
         ed == Strptime(dates.end_date)
     IN  IF StrptimeRaises(dates.start_date) \/ StrptimeRaises(dates.end_date)
           THEN /\ feedResp' = FeedAnswer(400, {"message"})
                /\ feedPc' = "done"
                /\ UNCHANGED nasaParams
         ELSE IF sd > feedReq.today \/ ed > feedReq.today
           THEN /\ feedResp' = FeedAnswer(400, {"message"})
                /\ feedPc' = "done"
                /\ UNCHANGED nasaParams
         ELSE IF ed < sd
           THEN /\ feedResp' = FeedAnswer(400, {"message"})
                /\ feedPc' = "done"
                /\ UNCHANGED nasaParams
         ELSE /\ nasaParams' = [start_date |-> Isoformat(sd),
                                end_date |-> Isoformat(ed)]
              /\ feedPc' = "call"
              /\ UNCHANGED feedResp

FeedCall ==
  /\ feedPc = "call"
  /\ UNCHANGED <<simVars, authVars, mailVars>>
  /\ UNCHANGED <<feedReq, nasaParams>>
  /\ nasaCalls' = nasaCalls + 1
  /\ feedPc' = "done"
  /\ \E o \in NasaOutcomes :
       /\ nasaResp' = o
       /\ feedResp' =
            IF o \in {"error", "http_error"}
              THEN FeedAnswer(502, {"message", "details"})
            ELSE IF o = "nonjson"
              THEN FeedAnswer(502, {"message", "details"})
            ELSE IF o \in {"nodict", "empty_cad"}
              THEN FeedAnswer(500, {})
            ELSE FeedAnswer(200, {"asteroids"})

InitFeed ==
  /\ SimIdle /\ AuthIdle /\ MailIdle
  /\ feedReq \in [start_date : StartDates, end_date : EndDates,
                  today : Todays]
  /\ feedPc = "validate"
  /\ nasaCalls = 0
  /\ nasaParams = NoParams
  /\ nasaResp = "none"
  /\ feedResp = NoFeedResp

NextFeed ==
  \/ FeedValidate
  \/ FeedCall

SpecFeed == InitFeed /\ [][NextFeed]_vars

(* ---------------- User.send_confirmation_code ---------------- *)
\* what the call meets: whether the token, the text template and the HTML
\* template can be produced, whether mail is enabled, and what the Gmail
\* service does with a message ("ok", an HttpError, another exception)
MailEnvs ==
  [to : Emails, token : {"ok", "raise"}, text : {"ok", "raise"},
   html : {"ok", "raise"}, enabled : BOOLEAN,
   service : {"ok", "http_error", "error"}]

\* def send_email(self, to, subject, template, template_html=None)
SendEmailParameters == {"to", "subject", "template", "template_html"}
\* the call of send_confirmation_code: four positional arguments and
\* asynchronous=True
CallPositional == 4
CallKeywords == {"asynchronous"}

\* the call cannot be bound to the signature: TypeError
BindRaises ==
  \/ CallPositional > Cardinality(SendEmailParameters)
  \/ ~(CallKeywords \subseteq SendEmailParameters)

\* send_email: the dummy service when mail is disabled; 200, the HttpError's
\* status or 500 otherwise -- always a return, never an exception
SendEmailReturns(env) ==
  IF ~env.enabled \/ env.service = "ok" THEN 200
  ELSE IF env.service = "http_error" THEN 403
  ELSE 500

MailReturn(result) ==
  /\ mailResult' = result
  /\ mailPc' = "done"

MailToken ==
  /\ mailPc = "token"
  /\ UNCHANGED <<simVars, authVars, feedVars>>
  /\ UNCHANGED <<mailEnv, mailSent>>
  /\ IF mailEnv.token = "raise"
       THEN MailReturn("false")
       ELSE mailPc' = "text" /\ UNCHANGED mailResult

MailRenderText ==
  /\ mailPc = "text"
  /\ UNCHANGED <<simVars, authVars, feedVars>>
  /\ UNCHANGED <<mailEnv, mailSent>>
  /\ IF mailEnv.text = "raise"
       THEN MailReturn("false")
       ELSE mailPc' = "html" /\ UNCHANGED mailResult

MailRenderHtml ==
  /\ mailPc = "html"
  /\ UNCHANGED <<simVars, authVars, feedVars>>
  /\ UNCHANGED <<mailEnv, mailSent>>
  /\ IF mailEnv.html = "raise"
       THEN MailReturn("false")
       ELSE mailPc' = "send" /\ UNCHANGED mailResult

MailSend ==
  /\ mailPc = "send"
  /\ UNCHANGED <<simVars, authVars, feedVars>>
  /\ UNCHANGED mailEnv
  /\ IF BindRaises
       THEN MailReturn("false") /\ UNCHANGED mailSent
       ELSE /\ mailSent' = IF SendEmailReturns(mailEnv) = 200
                             THEN mailSent + 1
                             ELSE mailSent
            /\ MailReturn("true")

InitMail ==
  /\ SimIdle /\ AuthIdle /\ FeedIdle
  /\ mailEnv \in MailEnvs
  /\ mailPc = "token"
  /\ mailSent = 0
  /\ mailResult = "none"

NextMail ==
  \/ MailToken
  \/ MailRenderText
  \/ MailRenderHtml
  \/ MailSend

SpecMail == InitMail /\ [][NextMail]_vars

(***************************************************************************)
(* Properties                                                              *)
(***************************************************************************)
\* the stats call was made and answered 200 with "created" and a task id
AsyncPath ==
  /\ statsCalls > 0
  /\ wp_json.transport = "ok"
  /\ wp_json.status_code = 200
  /\ wp_json.body = "created"
  /\ wp_json.taskid

\* the stats call was made and answered 200 with a JSON body that is no task
SyncPath ==
  /\ statsCalls > 0
  /\ wp_json.transport = "ok"
  /\ wp_json.status_code = 200
  /\ wp_json.body # "nonjson"
  /\ ~(wp_json.body = "created" /\ wp_json.taskid)

\* a call that raised, or was answered with a status other than 200
TransportFailed(o) ==
  o.transport = "error" \/ (o.transport = "ok" /\ o.status_code # 200)

\* the response carries no parsable total_population
LacksPopulation(o) ==
  o.data # "dict" \/ o.total_population.k # "num"

\* the request resolves a polygon or a location
GeometryResolvable ==
  req.geojson # "absent"
  \/ (req.location.present /\ ~LocationRaises(req.location))

\* k is n/d rounded to the nearest integer, a tie to the even one
IsNearestEven(k, n, d) ==
  /\ 2 * (d * k - n) <= d
  /\ 2 * (n - d * k) <= d
  /\ (2 * (d * k - n) = d \/ 2 * (n - d * k) = d) => k % 2 = 0

\* C1: on the asynchronous path, when no poll reports "finished", the request
\* ends only after exactly 30 polls and with the timeout response (504).
\* Violated: a poll that raises ends the request at once (see C7).
C1_TimeoutAfterThirtyPolls ==
  (pc = "done" /\ AsyncPath /\ ~pollFinished)
    => (polls = MaxPolls /\ resp.kind = "error" /\ resp.status = 504)

\* C2: once the k-th poll is the first to report "finished", the population is
\* the total_population that poll's response carries, a success response
\* carries that population rounded to a whole number, the request does not
\* time out, and no further poll is made.
C2_FirstFinishedPollDecides ==
  /\ [](pollFinished =>
          /\ AsyncPath
          /\ polls \in 1 .. MaxPolls
          /\ tj.transport = "ok" /\ tj.status_code = 200 /\ tj.body = "finished"
          /\ (tj.data = "dict" /\ tj.total_population.k # "absent")
               => population = tj.total_population
          /\ resp.status # 504
          /\ resp.kind = "result"
               => IsNearestEven(resp.population.v, population.v,
                                Den(population)))
  /\ [][pollFinished => (polls' = polls /\ tj' = tj /\ pollFinished')]_vars

C2_Witness ==
  /\ pollFinished
  /\ polls = 3
  /\ tj.total_population = Num(1)
  /\ resp.kind = "result"
  /\ resp.population = Num(1)

\* C3: when the deciding response (the stats response on the synchronous path,
\* the finished task response on the asynchronous one) carries no parsable
\* total_population, no success response is produced.
\* Violated: a finished task response without total_population counts as 0.
C3_MissingPopulationFails ==
  (pc = "done"
     /\ \/ (SyncPath /\ LacksPopulation(wp_json))
        \/ (pollFinished /\ LacksPopulation(tj)))
    => resp.kind # "result"

\* C4: a request with a payload but neither geojson nor location ends with
\* HTTP 400, whatever the asteroid field holds.
\* Violated: the aphelion is read before the check, and raises.
C4_NoGeometryIs400 ==
  (pc = "done" /\ req.payload /\ req.geojson = "absent" /\ ~req.location.present)
    => (resp.kind = "error" /\ resp.status = 400)

\* C5: a request without an asteroid descriptor, whose geometry resolves, gets
\* to the stats call, and a result carries the lethality of the radius
\* heuristic on the request's radius (default 5.0).
\* Violated: without an asteroid the aphelion read raises.
C5_NoAsteroidUsesRadiusHeuristic ==
  (pc = "done" /\ req.payload /\ ~req.asteroid.present /\ GeometryResolvable)
    => /\ statsCalls > 0
       /\ resp.kind = "result"
            => resp.lethality_used = Num(RadiusHeuristic(RadiusVal(req.location)))

\* C6: every response that is not a success is a JSON error body with a
\* descriptive field.
\* Violated: an unhandled exception ends the request with the framework's page.
C6_FailuresAreJson ==
  (pc = "done" /\ resp.kind # "result")
    => (resp.kind = "error" /\ "error" \in resp.keys)

\* C7: when the stats call or the last task poll raised or was answered with a
\* status other than 200, the request ends with 502 or 504 and a body carrying
\* a message and details.
\* Violated: a poll that raises is not caught; a non-200 poll is retried.
C7_UpstreamFailureIs502or504 ==
  (pc = "done"
     /\ \/ (statsCalls > 0 /\ TransportFailed(wp_json))
        \/ (polls > 0 /\ TransportFailed(tj)))
    => (resp.status \in {502, 504} /\ {"error", "details"} \subseteq resp.keys)

\* C8: once the stats call raised or was answered with a status other than
\* 200, the request is over with the 502 error body, and no poll, no geocoding
\* call and no later stage has run.
C8_StatsFailureIs502 ==
  (statsCalls > 0 /\ TransportFailed(wp_json))
    => /\ pc = "done"
       /\ resp = ErrorResp(502, {"error", "details"})
       /\ polls = 0
       /\ geoCalls = 0
       /\ population = Absent
       /\ place = Absent
       /\ lethality = Absent
       /\ estimated_kills = Absent
       /\ physics = NoPhysics

C8_Witness ==
  /\ pc = "done"
  /\ wp_json.transport = "ok"
  /\ wp_json.status_code = 500
  /\ wp_json.body = "created"
  /\ resp.status = 502

\* C9: the place stage always hands over to the lethality stage, changing
\* nothing but place (and the geocoder's response); place is a name only when
\* the geocoder answered 200 with display_name, null otherwise, and the result
\* carries it.
C9_PlaceLookupNeverFails ==
  /\ [][pc = "place" =>
          /\ pc' = "lethality"
          /\ place' \in {Null, Str}
          /\ UNCHANGED <<req, coords, geojson, wp_json, statsCalls, tj, polls,
                         pollFinished, population, lethality, estimated_kills,
                         physics, resp>>]_vars
  /\ [](place = Str =>
          (r.transport = "ok" /\ r.status_code = 200 /\ r.body = "name"))
  /\ [](pc \in {"lethality", "physics", "assemble"} /\ geoCalls > 0
          /\ (TransportFailed(r) \/ r.body # "name")
            => place = Null)
  /\ [](pc \in {"lethality", "physics", "assemble"} /\ geoCalls = 0
            => place = Null)
  /\ [](resp.kind = "result" => resp.place = place)

C9_Witness ==
  /\ pc = "done"
  /\ resp.kind = "result"
  /\ geoCalls = 1
  /\ r.transport = "error"
  /\ resp.place = Null

AfterLethality == pc \in {"physics", "assemble"}
ExplicitEnergy == ~FloatRaises(req.asteroid.impact_energy_tnt)
\* the band of the energy n/d tons of TNT, in hundredths
BandOf(n, d) ==
  IF n >= 1000000 * d THEN 99
  ELSE IF n >= 10000 * d THEN 90
  ELSE IF n >= 100 * d THEN 75
  ELSE IF n >= d THEN 50
  ELSE 25
NumericEnergies == {e \in EnergyInputs : ~FloatRaises(e)}

\* C11: once the lethality stage has run on a descriptor whose
\* impact_energy_tnt is a number e, the lethality is 0.99 for e >= 1e6, 0.9
\* for e >= 1e4, 0.75 for e >= 1e2, 0.5 for e >= 1 and 0.25 below; the energies
\* 1e-1, 1, 1e2, 1e4, 1e6 give 0.25, 0.5, 0.75, 0.9, 0.99; and of two energies
\* the larger never gets the smaller lethality.
C11_LethalityThresholds ==
  /\ (AfterLethality /\ ExplicitEnergy)
       => lethality = Num(BandOf(req.asteroid.impact_energy_tnt.v,
                                 Den(req.asteroid.impact_energy_tnt)))
  /\ BandOf(1, 10) = 25 /\ BandOf(1, 1) = 50 /\ BandOf(100, 1) = 75
  /\ BandOf(10000, 1) = 90 /\ BandOf(1000000, 1) = 99
  /\ \A e1 \in NumericEnergies : \A e2 \in NumericEnergies :
       e1.v * Den(e2) <= e2.v * Den(e1)
         => LethalityOfEnergy(e1.v, Den(e1)) <= LethalityOfEnergy(e2.v, Den(e2))
C11_Witness ==
  /\ pc = "physics"
  /\ req.asteroid.impact_energy_tnt = Num(1000000)
  /\ lethality = Num(99)
  /\ estimated_kills = Num(1)

\* the velocity field the estimator reads: entry_speed_km_s when the
\* descriptor has it, else relative_velocity_km_s
PresentVelocity ==
  IF ~IsNone(req.asteroid.entry_speed_km_s)
    THEN req.asteroid.entry_speed_km_s
    ELSE req.asteroid.relative_velocity_km_s
MassAndVelocityPresent ==
  /\ ~FloatRaises(req.asteroid.mass_kg)
  /\ ~FloatRaises(PresentVelocity)

\* C12: once the lethality stage has run on a descriptor, a numeric
\* impact_energy_tnt decides the lethality by its band; without
\* impact_energy_tnt, a numeric mass and velocity (zero included) decide it by
\* the band of 0.5*mass*(1000 v)^2 / 4.184e9 = mass*v*v / 8368; otherwise the
\* radius heuristic does.
C12_EnergySourcePreference ==
  (AfterLethality /\ req.asteroid.present) =>
    /\ ExplicitEnergy
         => lethality = Num(BandOf(req.asteroid.impact_energy_tnt.v,
                                   Den(req.asteroid.impact_energy_tnt)))
    /\ (IsNone(req.asteroid.impact_energy_tnt) /\ MassAndVelocityPresent)
         => lethality =
              Num(BandOf((req.asteroid.mass_kg.v * PresentVelocity.v
                            * PresentVelocity.v) \div 8368, 1))
    /\ (IsNone(req.asteroid.impact_energy_tnt) /\ IsNone(req.asteroid.mass_kg)
          /\ IsNone(PresentVelocity))
         => lethality = Num(RadiusHeuristic(RadiusVal(req.location)))

(* ---------------- the physics figures ---------------- *)
\* C13: once the physics has been computed, the number that divides 2 G M
\* under the square root of the maximum impact velocity is the aphelion
\* distance times 149597870700, the aphelion get_asteroid_data returns.
C13_AphelionConvertedToMetres ==
  physics.computed
    => physics.aphelion = GetAsteroidDataAphelion(req.asteroid.aphelion_distance)

\* C14: once the physics has been computed, the length halved in the divisor
\* of the overpressure 15 * E_mt^(1/3) / (20 * radius) is the crater diameter.
C14_OverpressureUsesCraterRadius ==
  physics.computed
    => physics.pressure_radius = [half_of |-> "crater_diameter"]

\* the velocity fields of the descriptor in the order they are tried
VelocityFields ==
  <<"entry_speed_km_s", "relative_velocity_km_s", "relative_velocity",
    "relativeVelocity", "cad_kps">>
NumericVelocityFields ==
  {i \in 1 .. Len(VelocityFields) : ~FloatRaises(req.asteroid[VelocityFields[i]])}
FirstNumericVelocity ==
  req.asteroid[VelocityFields[CHOOSE i \in NumericVelocityFields :
                                \A j \in NumericVelocityFields : i <= j]]

\* C15: once the physics has been computed, the velocity of the kinetic
\* energy is the first of entry_speed_km_s, relative_velocity_km_s,
\* relative_velocity, relativeVelocity and the close-approach
\* kilometers_per_second that carries a number, and the computed maximum
\* impact velocity when none does.
C15_VelocityPreference ==
  physics.computed =>
    IF NumericVelocityFields # {}
      THEN physics.velocity_km_s = [src |-> "explicit", v |-> FirstNumericVelocity.v]
      ELSE physics.velocity_km_s.src = "impact_velocity"

NumericDiameterFields ==
  {i \in 1 .. Len(DiameterAliases) :
     req.asteroid[DiameterAliases[i]].k = "num"}
FirstNumericDiameter ==
  req.asteroid[DiameterAliases[CHOOSE i \in NumericDiameterFields :
                                 \A j \in NumericDiameterFields : i <= j]]
EstimatePairNumeric ==
  req.asteroid.est_min.k = "num" /\ req.asteroid.est_max.k = "num"

\* C16: once the physics has been computed, its diameter is the first of
\* diameter, diameterMeters, diameter_m, diameter_meters that carries a
\* number, or, when none does, half the sum of the estimated_diameter minimum
\* and maximum; a request whose descriptor yields neither never has its
\* physics computed and never gets a success response.
C16_DiameterResolution ==
  /\ physics.computed =>
       IF NumericDiameterFields # {}
         THEN physics.diameter = FirstNumericDiameter
         ELSE /\ EstimatePairNumeric
              /\ physics.diameter.k = "num"
              /\ physics.diameter.v
                   = req.asteroid.est_min.v + req.asteroid.est_max.v
              /\ Den(physics.diameter) = 2
  /\ (NumericDiameterFields = {} /\ ~EstimatePairNumeric)
       => /\ ~physics.computed
          /\ pc # "assemble"
          /\ resp.kind # "result"
  /\ (pc = "done" /\ NumericDiameterFields = {} /\ ~EstimatePairNumeric)
       => resp = Crash
C16_Witness ==
  /\ req.asteroid.diameter = Bad
  /\ req.asteroid.diameterMeters = Num(500)
  /\ req.asteroid.est_min = Num(100)
  /\ req.asteroid.est_max = Num(201)
  /\ resp.kind = "result"
  /\ resp.physics.diameter = Num(500)

(* ---------------- the aphelion, the synchronous path ---------------- *)
AphelionMissing ==
  ~req.asteroid.present \/ req.asteroid.aphelion_distance.k # "num"

CompletedDirectly ==
  SyncPath /\ wp_json.data = "dict" /\ wp_json.total_population.k = "num"

\* C20 (as stated): on the synchronous path the population of a success
\* response is exactly the total_population of the stats answer.
\* Violated: the response carries int(round(population)), 2 for 1.5.
C20_ResponsePopulationExact ==
  (CompletedDirectly /\ resp.kind = "result")
    => resp.population = wp_json.total_population

\* C20 (amended): when the stats answer carries a numeric total_population
\* directly, the population the request works with is exactly that number,
\* no task poll is made, and a success response carries it rounded to the
\* nearest whole number (a tie to the even one), so exactly it when it is whole.
C20_SyncPopulationRounded ==
  CompletedDirectly
    => /\ population = wp_json.total_population
       /\ polls = 0 /\ tj = NoCall /\ ~pollFinished
       /\ resp.status # 504
       /\ resp.kind = "result"
            => /\ IsNearestEven(resp.population.v, wp_json.total_population.v,
                                Den(wp_json.total_population))
               /\ Den(wp_json.total_population) = 1
                    => resp.population = wp_json.total_population
C20_Witness ==
  /\ CompletedDirectly
  /\ wp_json.total_population = Frac(3, 2)
  /\ resp.kind = "result"
  /\ resp.population = Num(2)
  /\ polls = 0

(* ---------------- the figures of the response ---------------- *)
\* C18: every physics figure of a success response is a finite number,
\* neither an infinity nor NaN.
C18_FiguresFinite ==
  resp.kind = "result"
    => \A f \in PhysicsKeys : resp.physics.cls[f] = "finite"

\* the figures the response to this request would carry with the descriptor a
\* (the same location and population): none when the request fails
FiguresFor(a) ==
  IF PhysicsRaises(a)
       \/ AssembleRaises(population,
                         LethalityStage(a, req.location, population).lethality)
    THEN NoPhysics
    ELSE PhysicsOf(a)

\* C19: the physics figures of the response to a finished request are those
\* of the response to the request that differs from it in mass_kg alone,
\* whatever mass_kg that request carries.
C19_FiguresIndependentOfMass ==
  pc = "done"
    => \A m \in MassInputs :
         resp.physics = FiguresFor([req.asteroid EXCEPT !.mass_kg = m])

(* ---------------- the polygon ---------------- *)
\* C21: the polygon built from a location has 65 vertices, the i-th the
\* point at bearing i * 360/64 with the longitude first, and its last vertex
\* is equal to its first.
C21_ClosedRingOf65 ==
  coords # <<>> =>
    /\ Len(coords) = 65
    /\ \A i \in 0 .. 64 :
         LET pt == destination_point(req.location.lat.v, req.location.lon.v,
                                     i, RadiusKm(req.location))
         IN  coords[i + 1] = <<pt.lon2, pt.lat2>>
    /\ coords[1] = coords[65]

(* ---------------- login and passwords ---------------- *)
PasswordUser(email) ==
  /\ FirstByEmail(email) # 0
  /\ lastSet[FirstByEmail(email)] # "none"

C23_OneUserPerEmail ==
  /\ [](\A i, j \in 1 .. Len(users) :
          i # j => users[i].email # users[j].email)
  /\ [][(authResp' # authResp /\ authResp'.op = "register"
          /\ \E i \in 1 .. Len(users) : users[i].email = authResp'.email)
        => /\ authResp'.status = 400
           /\ users' = users]_vars
  /\ [][(authResp' # authResp /\ authResp'.op = "google"
          /\ \E i \in 1 .. Len(users) : users[i].email = authResp'.email)
        => /\ authResp'.status = 200
           /\ authResp'.user \in 1 .. Len(users)
           /\ users[authResp'.user].email = authResp'.email
           /\ users' = users]_vars

C23_Witness ==
  /\ authResp.op = "register"
  /\ authResp.status = 400
  /\ authResp.msg = "A user with this email address already exists."
  /\ authResp.email = "newuser@example.com"
  /\ Len(users) = 2
  /\ users[2].google

(* ---------------- the order of the stages ---------------- *)
StageOfPc(p) ==
  CASE p = "receive" -> "Geometry Builder"
    [] p \in {"stats", "poll"} -> "Population Resolver"
    [] p = "place" -> "Place Resolver"
    [] p = "lethality" -> "Lethality Estimator"
    [] p = "physics" -> "Impact Physics Engine"
    [] p = "assemble" -> "Result Assembler"

SpecOrder ==
  <<"Geometry Builder", "Population Resolver", "Place Resolver",
    "Impact Physics Engine", "Lethality Estimator", "Result Assembler">>

CodeOrder ==
  <<"Geometry Builder", "Population Resolver", "Place Resolver",
    "Lethality Estimator", "Impact Physics Engine", "Result Assembler">>

Position(order, stage) ==
  CHOOSE i \in 1 .. Len(order) : order[i] = stage

\* a step that leaves a stage enters a later stage of the order, or ends
\* the request
RunsInOrder(order) ==
  (pc' # pc /\ pc' # "done")
    => Position(order, StageOfPc(pc')) >= Position(order, StageOfPc(pc))

CallDiscipline ==
  /\ polls > 0 => statsCalls = 1
  /\ geoCalls > 0 => (~IsNone(population) /\ statsCalls = 1)
  /\ statsCalls <= 1
  /\ polls <= 30
  /\ geoCalls <= 1

\* C24 (as stated): the stages run in the order Geometry Builder, Population
\* Resolver, Place Resolver, Impact Physics Engine, Lethality Estimator,
\* Result Assembler; the stats call precedes every poll, the geocoding call
\* is made at most once and only with a resolved population, and a request
\* makes at most 1 stats call, 30 polls and 1 geocoding call.
C24_StagesInSpecOrder ==
  /\ []CallDiscipline
  /\ [][RunsInOrder(SpecOrder)]_vars

\* C24 (amended): the same with the Lethality Estimator before the Impact
\* Physics Engine.
C24_StagesInCodeOrder ==
  /\ []CallDiscipline
  /\ [][RunsInOrder(CodeOrder)]_vars

C24_Witness ==
  /\ pc = "done"
  /\ resp.status = 200
  /\ statsCalls = 1
  /\ polls = 30
  /\ geoCalls = 1
  /\ lethality # Absent
  /\ physics.computed

(* ---------------- validation before any work ---------------- *)
\* the three validation errors of the claim, read off the request
MissingPayload == ~req.payload
NeitherGeometry ==
  req.payload /\ req.geojson = "absent" /\ ~req.location.present
NonNumericLocation ==
  /\ req.payload /\ req.geojson = "absent" /\ req.location.present
  /\ \/ req.location.lat.k # "num"
     \/ req.location.lon.k # "num"
     \/ req.location.radius_km.k \in {"null", "bad"}

NothingStarted ==
  /\ statsCalls = 0 /\ polls = 0 /\ geoCalls = 0
  /\ wp_json = NoCall /\ tj = NoCall /\ r = NoCall
  /\ coords = <<>> /\ geojson = "unset"

\* C25: a request that ends with a validation error (HTTP 400: missing
\* payload, neither geojson nor location, non-numeric lat, lon or radius_km)
\* ends in the handler's first step, with no polygon built and no call to
\* the stats, task or geocoding service; a request with one of these three
\* defects never builds a polygon or makes a call.
C25_ValidationBeforeWork ==
  /\ []((resp.status = 400)
          => /\ resp.kind = "error"
             /\ MissingPayload \/ NeitherGeometry \/ NonNumericLocation
             /\ NothingStarted)
  /\ []((MissingPayload \/ NeitherGeometry \/ NonNumericLocation)
          => /\ NothingStarted
             /\ pc = "done" => resp.status \in {400, 500})
  /\ [][(resp'.status = 400 /\ resp.status # 400) => pc = "receive"]_vars

C25_Witness ==
  /\ pc = "done"
  /\ resp.status = 400
  /\ req.asteroid.present
  /\ req.location.present
  /\ req.location.lat = Bad
  /\ NothingStarted

(* ---------------- geojson and location together ---------------- *)
GeojsonSupplied == req.payload /\ req.geojson # "absent"

\* the estimator has a descriptor but no energy: no impact_energy_tnt, and
\* the mass or the velocity missing
NoEnergySource ==
  /\ req.asteroid.present
  /\ IsNone(req.asteroid.impact_energy_tnt)
  /\ IsNone(req.asteroid.mass_kg) \/ IsNone(PresentVelocity)

\* C26: with a geojson supplied the polygon sent to the stats service and
\* used for the centroid is the supplied one, none is built from the location
\* and no location value makes the request fail validation; the radius
\* heuristic still reads location.radius_km when a location is supplied with
\* it (0.9 from 5 km, 0.5 below), and uses 5.0 (0.9) when there is no
\* location or no radius_km.
C26_GeojsonTakesPrecedence ==
  GeojsonSupplied =>
    /\ coords = <<>>
    /\ geojson \in {"unset", req.geojson}
    /\ statsCalls > 0 => geojson = req.geojson
    /\ geoCalls > 0 => (geojson = req.geojson /\ req.geojson = "polygon")
    /\ resp.status # 400
    /\ (pc = "done" /\ req.asteroid.aphelion_distance.k = "num")
         => statsCalls = 1
    /\ (AfterLethality /\ NoEnergySource)
         => lethality =
              IF req.location.present /\ req.location.radius_km.k = "num"
                   /\ req.location.radius_km.v < 5
                THEN Num(50)
                ELSE Num(90)

C26_Witness ==
  /\ GeojsonSupplied
  /\ AfterLethality /\ NoEnergySource
  /\ req.location.radius_km = Num(4)
  /\ lethality = Num(50)
  /\ geoCalls = 1

\* a request whose location would fail validation is answered from its
\* geojson
C26_UnvalidatedLocationReached ==
  /\ GeojsonSupplied
  /\ req.location.lat = Bad
  /\ resp.status = 200

(* ---------------- the dates of the feed ---------------- *)
NasaFailed == nasaResp \in {"error", "http_error", "nonjson"}
FeedRejected ==
  /\ feedResp.status = 400
  /\ nasaCalls = 0
  /\ nasaResp = "none"
\* the end date the request asks for
AskedEnd ==
  IF feedReq.end_date.k = "absent" THEN feedReq.start_date
  ELSE feedReq.end_date

ServiceAccepts == ~mailEnv.enabled \/ mailEnv.service = "ok"
Prepared ==
  mailEnv.token = "ok" /\ mailEnv.text = "ok" /\ mailEnv.html = "ok"

\* C28: send_confirmation_code returns True whenever the token and the two
\* templates are produced and the mail is sent, and returns False only when
\* producing the token, rendering a template or sending the mail fails.
\* Violated: the call of send_email never binds, so the result is always
\* False and no mail is sent.
C28_TrueWhenMailSent ==
  mailPc = "done" =>
    /\ (Prepared /\ ServiceAccepts)
         => (mailResult = "true" /\ mailSent = 1)
    /\ mailResult = "false" => (~Prepared \/ ~ServiceAccepts)

====
